---- MODULE Spec2Model ----
(***************************************************************************)
(* Regular-expression parser, Thompson NFA construction and NFA search of  *)
(* the automata repository (parser, nfa and matcher modules).              *)
(*                                                                         *)
(* A string is a sequence of one-character strings.  Characters are taken  *)
(* from the Basic Multilingual Plane, so indexing a string (pattern[pos])  *)
(* and iterating it (for .. of) see the same characters.  The JavaScript   *)
(* value undefined is the string "undefined", which no character equals.   *)
(***************************************************************************)
EXTENDS Integers, Sequences, FiniteSets, TLC

VARIABLES
    pattern,        \* parser module: let pattern
    pos,            \* parser module: let pos
    calls,          \* invocations of toParseTree in progress or finished
    ref,            \* the regular expression the matcher's argument is written from
    exp,            \* argument of createMatcher
    pc,             \* position of the matcher's client
    heap,           \* every FA_State created so far, by reference
    nfa,            \* the NFA the matcher closes over
    compiles,       \* number of toNFAFromInfixExp calls made
    word,           \* argument of the running search
    consumed,       \* number of symbols of word the search loop has processed
    currentStates,  \* search: let currentStates
    answer,         \* value the matcher returned for word, once the call is over
    fragments,      \* the NFA values built and not yet given to an operator
    last,           \* the operator applied last, its operands and the heap it found
    tokens,         \* argument of toNFA (postfixExp)
    operandStack,   \* toNFA: const stack
    tokensRead,     \* number of tokens the loop of toNFA has processed
    frames,         \* addNextState: the calls in progress, each at an epsilon transition
    visitedNow,     \* addNextState: the visited list the calls share
    nextNow,        \* addNextState: the nextStates list the calls share
    entries,        \* the states addNextState was called on since the outermost call
    scanned         \* search: number of current states the inner loop has processed

parserVars == <<pattern, pos, calls>>
matcherVars == <<ref, exp, pc, heap, nfa, compiles, word, consumed, currentStates, answer>>
builderVars == <<fragments, last, tokens, operandStack, tokensRead>>
closureVars == <<frames, visitedNow, nextNow, entries, scanned>>

vars == <<pattern, pos, calls, ref, exp, pc, heap, nfa, compiles, word,
          consumed, currentStates, answer, fragments, last, tokens, operandStack,
          tokensRead, frames, visitedNow, nextNow, entries, scanned>>

UNDEF == "undefined"

(***************************************************************************)
(* Outcome of a call: a returned value or a thrown error, with the value   *)
(* the module variable pos has when the call ends.                         *)
(***************************************************************************)
Returned(v, p) == [thrown |-> FALSE, value |-> v, pos |-> p]
Thrown(e, p) == [thrown |-> TRUE, error |-> e, pos |-> p]

(***************************************************************************)
(* TreeNode: a leaf has a label only, an inner node a label and children. *)
(***************************************************************************)
Leaf(label) == [label |-> label]
Node(label, children) == [label |-> label, children |-> children]

\* ------------------------------------------------------------------ parser

peek(pat, p) == IF p < Len(pat) THEN pat[p + 1] ELSE UNDEF

hasMoreChars(pat, p) == p < Len(pat)

isMetaChar(ch) == ch = "*" \/ ch = "+" \/ ch = "?"

match(pat, p, ch) ==
    IF peek(pat, p) # ch
    THEN Thrown(<<"Unexpected symbol", ch>>, p)
    ELSE Returned(UNDEF, p + 1)

\* a statement that calls r and goes on with K unless the call threw
Bind(r, K(_)) == IF r.thrown THEN r ELSE K(r)

next(pat, p) ==
    Bind(match(pat, p, peek(pat, p)),
         LAMBDA m : Returned(peek(pat, p), m.pos))

\* char without the escape rule: a backslash is an ordinary character
charNoEscape(pat, p) ==
    IF isMetaChar(peek(pat, p))
    THEN Thrown(<<"Unexpected meta char", peek(pat, p)>>, p)
    ELSE Bind(next(pat, p), LAMBDA n :
         Returned(Node("Char", <<Leaf(n.value)>>), n.pos))

char(pat, p) ==
    IF isMetaChar(peek(pat, p))
    THEN Thrown(<<"Unexpected meta char", peek(pat, p)>>, p)
    ELSE IF peek(pat, p) = "\\"
    THEN Bind(match(pat, p, "\\"), LAMBDA m :
         Bind(next(pat, m.pos), LAMBDA n :
         Returned(Node("Char", <<Leaf("\\"), Leaf(n.value)>>), n.pos)))
    ELSE Bind(next(pat, p), LAMBDA n :
         Returned(Node("Char", <<Leaf(n.value)>>), n.pos))

RECURSIVE expr(_, _), term(_, _), factor(_, _), atom(_, _)

\* atom that labels a parenthesised expression Group
atomLabelsGroup(pat, p) ==
    IF peek(pat, p) = "("
    THEN Bind(match(pat, p, "("), LAMBDA m :
         Bind(expr(pat, m.pos), LAMBDA e :
         Bind(match(pat, e.pos, ")"), LAMBDA c :
         Returned(Node("Group", <<Leaf("("), e.value, Leaf(")")>>), c.pos))))
    ELSE Bind(char(pat, p), LAMBDA ch :
         Returned(Node("Atom", <<ch.value>>), ch.pos))

atom(pat, p) ==
    IF peek(pat, p) = "("
    THEN Bind(match(pat, p, "("), LAMBDA m :
         Bind(expr(pat, m.pos), LAMBDA e :
         Bind(match(pat, e.pos, ")"), LAMBDA c :
         Returned(Node("Atom", <<Leaf("("), e.value, Leaf(")")>>), c.pos))))
    ELSE Bind(char(pat, p), LAMBDA ch :
         Returned(Node("Atom", <<ch.value>>), ch.pos))

factor(pat, p) ==
    Bind(atom(pat, p), LAMBDA atm :
    IF hasMoreChars(pat, atm.pos) /\ isMetaChar(peek(pat, atm.pos))
    THEN Bind(next(pat, atm.pos), LAMBDA meta :
         Returned(Node("Factor", <<atm.value, Leaf(meta.value)>>), meta.pos))
    ELSE Returned(Node("Factor", <<atm.value>>), atm.pos))

term(pat, p) ==
    Bind(factor(pat, p), LAMBDA factr :
    IF /\ hasMoreChars(pat, factr.pos)
       /\ peek(pat, factr.pos) # ")"
       /\ peek(pat, factr.pos) # "|"
    THEN Bind(term(pat, factr.pos), LAMBDA trm :
         Returned(Node("Term", <<factr.value, trm.value>>), trm.pos))
    ELSE Returned(Node("Term", <<factr.value>>), factr.pos))

expr(pat, p) ==
    Bind(term(pat, p), LAMBDA trm :
    IF hasMoreChars(pat, trm.pos) /\ peek(pat, trm.pos) = "|"
    THEN Bind(match(pat, trm.pos, "|"), LAMBDA m :
         Bind(expr(pat, m.pos), LAMBDA e :
         Returned(Node("Expr", <<trm.value, Leaf("|"), e.value>>), e.pos)))
    ELSE Returned(Node("Expr", <<trm.value>>), trm.pos))

(***************************************************************************)
(* toParseTree run from start to end with nothing in between: it sets the  *)
(* module variables to (regex, 0) and returns expr().                      *)
(***************************************************************************)
toParseTree(regex) == expr(regex, 0)

\* --------------------------------------------------------- NFA primitives

(***************************************************************************)
(* FA_State objects live in a heap, a sequence indexed by reference; an    *)
(* NFA is a pair of references.  Every constructor takes the heap and      *)
(* returns the heap it leaves behind.                                      *)
(***************************************************************************)
createState(h, isEnd) ==
    [heap |-> Append(h, [isEnd |-> isEnd,
                         transition |-> <<>>,
                         epsilonTransitions |-> <<>>]),
     state |-> Len(h) + 1]

addEpsilonTransition(h, from, to) ==
    [h EXCEPT ![from].epsilonTransitions = Append(@, to)]

addTransition(h, from, to, symbol) ==
    LET old == h[from].transition IN
    [h EXCEPT ![from].transition =
        [s \in DOMAIN old \cup {symbol} |-> IF s = symbol THEN to ELSE old[s]]]

clearIsEnd(h, state) == [h EXCEPT ![state].isEnd = FALSE]

Fragment(h, start, end) == [heap |-> h, nfa |-> [start |-> start, end |-> end]]

fromEpsilon(h) ==
    LET s == createState(h, FALSE)
        e == createState(s.heap, TRUE)
    IN  Fragment(addEpsilonTransition(e.heap, s.state, e.state), s.state, e.state)

fromSymbol(h, symbol) ==
    LET s == createState(h, FALSE)
        e == createState(s.heap, TRUE)
    IN  Fragment(addTransition(e.heap, s.state, e.state, symbol), s.state, e.state)

\* concat that links second.end to first.start
concatReversed(h, first, second) ==
    LET h1 == addEpsilonTransition(h, second.end, first.start)
        h2 == clearIsEnd(h1, second.end)
    IN  Fragment(h2, second.start, first.end)

\* concat that leaves the accept flag of first.end set
concatKeepsAccept(h, first, second) ==
    Fragment(addEpsilonTransition(h, first.end, second.start), first.start, second.end)

concat(h, first, second) ==
    LET h1 == addEpsilonTransition(h, first.end, second.start)
        h2 == clearIsEnd(h1, first.end)
    IN  Fragment(h2, first.start, second.end)

union(h, first, second) ==
    LET s  == createState(h, FALSE)
        h1 == addEpsilonTransition(s.heap, s.state, first.start)
        h2 == addEpsilonTransition(h1, s.state, second.start)
        e  == createState(h2, TRUE)
        h3 == addEpsilonTransition(e.heap, first.end, e.state)
        h4 == clearIsEnd(h3, first.end)
        h5 == addEpsilonTransition(h4, second.end, e.state)
        h6 == clearIsEnd(h5, second.end)
    IN  Fragment(h6, s.state, e.state)

\* closure without the epsilon transition from nfa.end back to nfa.start
closureNoRepeat(h, n) ==
    LET s  == createState(h, FALSE)
        e  == createState(s.heap, TRUE)
        h1 == addEpsilonTransition(e.heap, s.state, e.state)
        h2 == addEpsilonTransition(h1, s.state, n.start)
        h3 == addEpsilonTransition(h2, n.end, e.state)
        h5 == clearIsEnd(h3, n.end)
    IN  Fragment(h5, s.state, e.state)

\* closure without the epsilon transition from the new start to the new end
closureNoSkip(h, n) ==
    LET s  == createState(h, FALSE)
        e  == createState(s.heap, TRUE)
        h2 == addEpsilonTransition(e.heap, s.state, n.start)
        h3 == addEpsilonTransition(h2, n.end, e.state)
        h4 == addEpsilonTransition(h3, n.end, n.start)
        h5 == clearIsEnd(h4, n.end)
    IN  Fragment(h5, s.state, e.state)

closure(h, n) ==
    LET s  == createState(h, FALSE)
        e  == createState(s.heap, TRUE)
        h1 == addEpsilonTransition(e.heap, s.state, e.state)
        h2 == addEpsilonTransition(h1, s.state, n.start)
        h3 == addEpsilonTransition(h2, n.end, e.state)
        h4 == addEpsilonTransition(h3, n.end, n.start)
        h5 == clearIsEnd(h4, n.end)
    IN  Fragment(h5, s.state, e.state)

zeroOrOne(h, n) ==
    LET s  == createState(h, FALSE)
        e  == createState(s.heap, TRUE)
        h1 == addEpsilonTransition(e.heap, s.state, e.state)
        h2 == addEpsilonTransition(h1, s.state, n.start)
        h3 == addEpsilonTransition(h2, n.end, e.state)
        h4 == clearIsEnd(h3, n.end)
    IN  Fragment(h4, s.state, e.state)

\* oneOrMore with the epsilon transition back to nfa.start leaving the new end
oneOrMoreLoopsFromEnd(h, n) ==
    LET s  == createState(h, FALSE)
        e  == createState(s.heap, TRUE)
        h1 == addEpsilonTransition(e.heap, s.state, n.start)
        h2 == addEpsilonTransition(h1, n.end, e.state)
        h3 == addEpsilonTransition(h2, e.state, n.start)
        h4 == clearIsEnd(h3, n.end)
    IN  Fragment(h4, s.state, e.state)

oneOrMore(h, n) ==
    LET s  == createState(h, FALSE)
        e  == createState(s.heap, TRUE)
        h1 == addEpsilonTransition(e.heap, s.state, n.start)
        h2 == addEpsilonTransition(h1, n.end, e.state)
        h3 == addEpsilonTransition(h2, n.end, n.start)
        h4 == clearIsEnd(h3, n.end)
    IN  Fragment(h4, s.state, e.state)

\* ---------------------------------------------------------- NFA compilers

(***************************************************************************)
(* toNFA: the stack machine over a postfix token string.  stack.pop() on   *)
(* an empty stack gives undefined (NoNFA, where an NFA is expected) and    *)
(* leaves the stack empty.                                                 *)
(***************************************************************************)
NoNFA == [undefined |-> TRUE]
Top(stack) == IF Len(stack) = 0 THEN NoNFA ELSE stack[Len(stack)]
Pop(stack) == IF Len(stack) = 0 THEN stack ELSE SubSeq(stack, 1, Len(stack) - 1)

Pushed(f, stack) == [heap |-> f.heap, stack |-> Append(stack, f.nfa)]

\* the branches for "*", "?" and "+"
tokenQuantifier(h, stack, token) ==
    LET s0 == Top(stack) IN
    IF s0 # NoNFA
    THEN IF token = "*" THEN Pushed(closure(h, s0), Pop(stack))
         ELSE IF token = "?" THEN Pushed(zeroOrOne(h, s0), Pop(stack))
         ELSE Pushed(oneOrMore(h, s0), Pop(stack))
    ELSE [heap |-> h, stack |-> Pop(stack)]

\* the branches for "|" and "." with the operands of concat in the order they are popped
tokenBinarySwapped(h, stack, token) ==
    LET right == Top(stack)
        left  == Top(Pop(stack))
    IN  IF right # NoNFA /\ left # NoNFA
        THEN IF token = "|" THEN Pushed(union(h, left, right), Pop(Pop(stack)))
             ELSE Pushed(concat(h, right, left), Pop(Pop(stack)))
        ELSE [heap |-> h, stack |-> Pop(Pop(stack))]

\* the branches for "|" and "."
tokenBinary(h, stack, token) ==
    LET right == Top(stack)
        left  == Top(Pop(stack))
    IN  IF right # NoNFA /\ left # NoNFA
        THEN IF token = "|" THEN Pushed(union(h, left, right), Pop(Pop(stack)))
             ELSE Pushed(concat(h, left, right), Pop(Pop(stack)))
        ELSE [heap |-> h, stack |-> Pop(Pop(stack))]

\* one round of for(const token of postfixExp)
toNFAToken(h, stack, token) ==
    IF token \in {"*", "?", "+"} THEN tokenQuantifier(h, stack, token)
    ELSE IF token \in {"|", "."} THEN tokenBinary(h, stack, token)
    ELSE Pushed(fromSymbol(h, token), stack)

RECURSIVE toNFALoop(_, _, _, _)
toNFALoop(h, stack, postfixExp, i) ==
    IF i > Len(postfixExp)
    THEN [heap |-> h, stack |-> stack]
    ELSE LET r == toNFAToken(h, stack, postfixExp[i]) IN
         toNFALoop(r.heap, r.stack, postfixExp, i + 1)

toNFA(h, postfixExp) ==
    IF postfixExp = <<>>
    THEN fromEpsilon(h)
    ELSE LET r == toNFALoop(h, <<>>, postfixExp, 1) IN
         [heap |-> r.heap, nfa |-> Top(r.stack)]

(***************************************************************************)
(* toNFAfromParseTree: the outcome carries the heap the call leaves.       *)
(***************************************************************************)
Built(f) == [thrown |-> FALSE, heap |-> f.heap, value |-> f.nfa]
Unrecognized(h, root) ==
    [thrown |-> TRUE, heap |-> h, error |-> <<"Unrecognized node label", root.label>>]

RECURSIVE toNFAfromParseTree(_, _)
toNFAfromParseTree(h, root) ==
    IF "children" \in DOMAIN root
    THEN IF root.label = "Expr"
         THEN LET trm == toNFAfromParseTree(h, root.children[1]) IN
              IF trm.thrown THEN trm
              ELSE IF Len(root.children) = 3
              THEN LET e == toNFAfromParseTree(trm.heap, root.children[3]) IN
                   IF e.thrown THEN e
                   ELSE Built(union(e.heap, trm.value, e.value))
              ELSE trm
         ELSE IF root.label = "Term"
         THEN LET fct == toNFAfromParseTree(h, root.children[1]) IN
              IF fct.thrown THEN fct
              ELSE IF Len(root.children) = 2
              THEN LET t == toNFAfromParseTree(fct.heap, root.children[2]) IN
                   IF t.thrown THEN t
                   ELSE Built(concat(t.heap, fct.value, t.value))
              ELSE fct
         ELSE IF root.label = "Factor"
         THEN LET atm == toNFAfromParseTree(h, root.children[1]) IN
              IF atm.thrown THEN atm
              ELSE IF Len(root.children) = 2
              THEN LET meta == root.children[2].label IN
                   IF meta = "*" THEN Built(closure(atm.heap, atm.value))
                   ELSE IF meta = "+" THEN Built(oneOrMore(atm.heap, atm.value))
                   ELSE IF meta = "?" THEN Built(zeroOrOne(atm.heap, atm.value))
                   ELSE atm
              ELSE atm
         ELSE IF root.label = "Atom"
         THEN IF Len(root.children) = 3
              THEN toNFAfromParseTree(h, root.children[2])
              ELSE toNFAfromParseTree(h, root.children[1])
         ELSE IF root.label = "Char"
         THEN IF Len(root.children) = 2
              THEN Built(fromSymbol(h, root.children[2].label))
              ELSE Built(fromSymbol(h, root.children[1].label))
         ELSE Unrecognized(h, root)
    ELSE Unrecognized(h, root)

(***************************************************************************)
(* toNFAFromInfixExp: the empty expression does not reach the parser, so   *)
(* the parser's module variables keep their values (parsed = FALSE).       *)
(***************************************************************************)
toNFAFromInfixExp(h, infixExp) ==
    IF infixExp = <<>>
    THEN [parsed |-> FALSE, build |-> Built(fromEpsilon(h))]
    ELSE LET t == toParseTree(infixExp) IN
         IF t.thrown
         THEN [parsed |-> TRUE, parse |-> t,
               build |-> [thrown |-> TRUE, heap |-> h, error |-> t.error]]
         ELSE [parsed |-> TRUE, parse |-> t,
               build |-> toNFAfromParseTree(h, t.value)]

\* ------------------------------------------------------------------ search

Contains(list, x) == \E i \in 1..Len(list) : list[i] = x

RECURSIVE addNextState(_, _, _, _), addNextStateLoop(_, _, _, _, _)

\* the for loop of addNextState over state.epsilonTransitions, from its i-th entry
addNextStateLoop(h, state, i, nextStates, visited) ==
    IF i > Len(h[state].epsilonTransitions)
    THEN [nextStates |-> nextStates, visited |-> visited]
    ELSE LET st == h[state].epsilonTransitions[i] IN
         IF ~Contains(visited, st)
         THEN LET r == addNextState(h, st, nextStates, Append(visited, st)) IN
              addNextStateLoop(h, state, i + 1, r.nextStates, r.visited)
         ELSE addNextStateLoop(h, state, i + 1, nextStates, visited)

addNextState(h, state, nextStates, visited) ==
    IF Len(h[state].epsilonTransitions) # 0
    THEN addNextStateLoop(h, state, 1, nextStates, visited)
    ELSE [nextStates |-> Append(nextStates, state), visited |-> visited]

\* search, up to its loop: the initial list of current states
searchStart(h, n) == addNextState(h, n.start, <<>>, <<>>).nextStates

\* the inner for loop of search over currentStates, from its i-th entry
RECURSIVE searchInner(_, _, _, _, _)
searchInner(h, current, i, symbol, nextStates) ==
    IF i > Len(current)
    THEN nextStates
    ELSE LET state == current[i] IN
         IF symbol \in DOMAIN h[state].transition
         THEN searchInner(h, current, i + 1, symbol,
                  addNextState(h, h[state].transition[symbol], nextStates, <<>>).nextStates)
         ELSE searchInner(h, current, i + 1, symbol, nextStates)

\* one round of the outer for loop of search: the next list of current states
searchSymbol(h, current, symbol) == searchInner(h, current, 1, symbol, <<>>)

\* the return statement of search
searchReturn(h, current) == \E i \in 1..Len(current) : h[current[i]].isEnd

RECURSIVE searchLoop(_, _, _, _)
searchLoop(h, current, w, i) ==
    IF i > Len(w)
    THEN searchReturn(h, current)
    ELSE searchLoop(h, searchSymbol(h, current, w[i]), w, i + 1)

search(h, n, w) == searchLoop(h, searchStart(h, n), w, 1)

recognize(h, n, w) == search(h, n, w)

(***************************************************************************)
(* addNextState call by call.  The calls in progress are frames, the       *)
(* innermost last; a frame is at the i-th entry of the epsilon transitions *)
(* of its state.  nextStates and visited are the arrays all the calls of   *)
(* one outermost call share; entries lists the states the calls were made  *)
(* on.                                                                     *)
(***************************************************************************)
Running(frms, vis, nxt, ents) ==
    [frames |-> frms, visited |-> vis, nextStates |-> nxt, entries |-> ents]

\* addNextState(state, nextStates, visited) is entered
enterAddNextState(h, state, c) ==
    IF Len(h[state].epsilonTransitions) # 0
    THEN [c EXCEPT !.frames = Append(@, [state |-> state, i |-> 1]),
                   !.entries = Append(@, state)]
    ELSE [c EXCEPT !.nextStates = Append(@, state),
                   !.entries = Append(@, state)]

\* the test of the for loop without the visited list
unvisitedAlways(vis, st) == TRUE

\* !visited.find(vs => vs === st)
unvisited(vis, st) == ~Contains(vis, st)

\* the innermost call goes on: one round of its for loop, or its return
stepAddNextState(h, c) ==
    LET top  == c.frames[Len(c.frames)]
        rest == SubSeq(c.frames, 1, Len(c.frames) - 1)
    IN  IF top.i > Len(h[top.state].epsilonTransitions)
        THEN [c EXCEPT !.frames = rest]
        ELSE LET st == h[top.state].epsilonTransitions[top.i]
                 c1 == [c EXCEPT !.frames = Append(rest, [top EXCEPT !.i = top.i + 1])]
             IN  IF unvisited(c.visited, st)
                 THEN enterAddNextState(h, st, [c1 EXCEPT !.visited = Append(@, st)])
                 ELSE c1

\* ---------------------------------------------------- createMatcher, as steps

NoAnswer == [none |-> TRUE]

\* createMatcher(exp): const nfa = toNFAFromInfixExp(exp), then the closure is returned
CreateMatcher ==
    /\ pc = "new"
    /\ LET r == toNFAFromInfixExp(heap, exp) IN
       /\ heap' = r.build.heap
       /\ pattern' = IF r.parsed THEN exp ELSE pattern
       /\ pos' = IF r.parsed THEN r.parse.pos ELSE pos
       /\ nfa' = IF r.build.thrown THEN NoNFA ELSE r.build.value
       /\ pc' = IF r.build.thrown THEN "thrown" ELSE "ready"
    /\ compiles' = compiles + 1
    /\ UNCHANGED <<calls, ref, exp, word, consumed, currentStates, answer,
                   builderVars, closureVars>>

\* the returned closure is called on w: recognize(nfa, w) enters search
Call(w) ==
    /\ pc = "ready"
    /\ word' = w
    /\ consumed' = 0
    /\ currentStates' = searchStart(heap, nfa)
    /\ pc' = "search"
    /\ answer' = NoAnswer
    /\ UNCHANGED <<pattern, pos, calls, ref, exp, heap, nfa, compiles,
                   builderVars, closureVars>>

\* one round of for(const symbol of word)
SearchSymbol ==
    /\ pc = "search"
    /\ consumed < Len(word)
    /\ currentStates' = searchSymbol(heap, currentStates, word[consumed + 1])
    /\ consumed' = consumed + 1
    /\ UNCHANGED <<pattern, pos, calls, ref, exp, pc, heap, nfa, compiles, word, answer,
                   builderVars, closureVars>>

\* the return statement with find(s => s.isEnd = true): an assignment for the test
SearchReturnAssigns ==
    /\ pc = "search"
    /\ consumed = Len(word)
    /\ answer' = [value |-> Len(currentStates) > 0]
    /\ heap' = IF Len(currentStates) > 0
               THEN [heap EXCEPT ![currentStates[1]].isEnd = TRUE]
               ELSE heap
    /\ pc' = "ready"
    /\ UNCHANGED <<pattern, pos, calls, ref, exp, nfa, compiles, word,
                   consumed, currentStates,
                   builderVars, closureVars>>

\* the loop is over: search returns, and so do recognize and the closure
SearchReturn ==
    /\ pc = "search"
    /\ consumed = Len(word)
    /\ answer' = [value |-> searchReturn(heap, currentStates)]
    /\ pc' = "ready"
    /\ UNCHANGED <<pattern, pos, calls, ref, exp, heap, nfa, compiles, word,
                   consumed, currentStates,
                   builderVars, closureVars>>

\* ------------------------------------------------------ toParseTree, as steps

NoOutcome == [none |-> TRUE]

Invocation(regex) == [regex |-> regex, at |-> "setPattern", outcome |-> NoOutcome]

\* pattern = regex
SetPattern(i) ==
    /\ calls[i].at = "setPattern"
    /\ pattern' = calls[i].regex
    /\ calls' = [calls EXCEPT ![i].at = "setPos"]
    /\ UNCHANGED <<pos, ref, exp, pc, heap, nfa, compiles, word, consumed,
                   currentStates, answer,
                   builderVars, closureVars>>

\* toParseTree without pos = 0
SetPosKeeps(i) ==
    /\ calls[i].at = "setPos"
    /\ calls' = [calls EXCEPT ![i].at = "expr"]
    /\ UNCHANGED <<pattern, pos, ref, exp, pc, heap, nfa, compiles, word, consumed,
                   currentStates, answer, builderVars, closureVars>>

\* pos = 0
SetPos(i) ==
    /\ calls[i].at = "setPos"
    /\ pos' = 0
    /\ calls' = [calls EXCEPT ![i].at = "expr"]
    /\ UNCHANGED <<pattern, ref, exp, pc, heap, nfa, compiles, word, consumed,
                   currentStates, answer,
                   builderVars, closureVars>>

\* return expr(), reading and advancing the module variables
RunExpr(i) ==
    /\ calls[i].at = "expr"
    /\ LET r == expr(pattern, pos) IN
       /\ pos' = r.pos
       /\ calls' = [calls EXCEPT ![i].at = "done", ![i].outcome = r]
    /\ UNCHANGED <<pattern, ref, exp, pc, heap, nfa, compiles, word, consumed,
                   currentStates, answer,
                   builderVars, closureVars>>

\* toParseTree(regex) is called when the call before it is over; of the calls that
\* are over only the latest is kept
StartCall(regex) ==
    /\ \A i \in DOMAIN calls : calls[i].at = "done"
    /\ calls' = IF calls = <<>>
                THEN <<Invocation(regex)>>
                ELSE <<calls[Len(calls)], Invocation(regex)>>
    /\ UNCHANGED <<pattern, pos, matcherVars, builderVars, closureVars>>

\* ------------------------------------------- inputs: reference expressions

(***************************************************************************)
(* A reference expression is a derivation of the grammar in the parser's   *)
(* header comment, with Char read as an ordinary character or a backslash  *)
(* and any character:                                                      *)
(*   sym c, esc c | group e | star e, plus e, opt e | cat l r | alt l r    *)
(* Its size is its number of nodes.  The argument of createMatcher is      *)
(* written from it by Infix; Postfix writes the token string of toNFA.     *)
(***************************************************************************)
MaxNodes == 5       \* size of the reference expressions over OrdinaryChars
MaxEscNodes == 3    \* size of the reference expressions with an escaped character
MaxWordLen == 3     \* length of the words given to a matcher

OrdinaryChars == {"a", "b"}
EscapedChars == {"*", "+", "?", "|", "(", ")", "\\", ".", "a"}

Sym(c) == [op |-> "sym", c |-> c]
Esc(c) == [op |-> "esc", c |-> c]

RECURSIVE AtomR(_, _), FactorR(_, _), TermR(_, _), ExprR(_, _)

AtomR(n, leaves) ==
    (IF n = 1 THEN leaves ELSE {})
    \cup (IF n >= 2 THEN {[op |-> "group", e |-> x] : x \in ExprR(n - 1, leaves)} ELSE {})

FactorR(n, leaves) ==
    AtomR(n, leaves)
    \cup (IF n >= 2
          THEN {[op |-> o, e |-> x] : o \in {"star", "plus", "opt"}, x \in AtomR(n - 1, leaves)}
          ELSE {})

TermR(n, leaves) ==
    FactorR(n, leaves)
    \cup UNION {{[op |-> "cat", l |-> x, r |-> y] :
                    x \in FactorR(i, leaves), y \in TermR(n - 1 - i, leaves)} : i \in 1..(n - 2)}

ExprR(n, leaves) ==
    TermR(n, leaves)
    \cup UNION {{[op |-> "alt", l |-> x, r |-> y] :
                    x \in TermR(i, leaves), y \in ExprR(n - 1 - i, leaves)} : i \in 1..(n - 2)}

EmptyR == [op |-> "empty"]

References ==
    {EmptyR}
    \cup UNION {ExprR(n, {Sym(c) : c \in OrdinaryChars}) : n \in 1..MaxNodes}
    \cup UNION {ExprR(n, {Sym("a"), Esc(c)}) : n \in 1..MaxEscNodes, c \in EscapedChars}

RECURSIVE Infix(_)
Infix(r) ==
    CASE r.op = "empty" -> <<>>
      [] r.op = "sym"   -> <<r.c>>
      [] r.op = "esc"   -> <<"\\", r.c>>
      [] r.op = "group" -> <<"(">> \o Infix(r.e) \o <<")">>
      [] r.op = "star"  -> Infix(r.e) \o <<"*">>
      [] r.op = "plus"  -> Infix(r.e) \o <<"+">>
      [] r.op = "opt"   -> Infix(r.e) \o <<"?">>
      [] r.op = "cat"   -> Infix(r.l) \o Infix(r.r)
      [] r.op = "alt"   -> Infix(r.l) \o <<"|">> \o Infix(r.r)

RECURSIVE Postfix(_)
Postfix(r) ==
    CASE r.op = "empty" -> <<>>
      [] r.op = "sym"   -> <<r.c>>
      [] r.op = "esc"   -> <<r.c>>
      [] r.op = "group" -> Postfix(r.e)
      [] r.op = "star"  -> Postfix(r.e) \o <<"*">>
      [] r.op = "plus"  -> Postfix(r.e) \o <<"+">>
      [] r.op = "opt"   -> Postfix(r.e) \o <<"?">>
      [] r.op = "cat"   -> Postfix(r.l) \o Postfix(r.r) \o <<".">>
      [] r.op = "alt"   -> Postfix(r.l) \o Postfix(r.r) \o <<"|">>

RECURSIVE CharsOf(_)
CharsOf(r) ==
    CASE r.op = "empty" -> {}
      [] r.op \in {"sym", "esc"} -> {r.c}
      [] r.op \in {"group", "star", "plus", "opt"} -> CharsOf(r.e)
      [] r.op \in {"cat", "alt"} -> CharsOf(r.l) \cup CharsOf(r.r)

Strings(chars, n) == UNION {[1..k -> chars] : k \in 0..n}

\* the words a matcher for r is tried on: over its characters and one more
WordChars(r) ==
    CharsOf(r) \cup {"a"} \cup (IF CharsOf(r) \subseteq {"a"} THEN {"b"} ELSE {})
WordsFor(r) == Strings(WordChars(r), MaxWordLen)

(***************************************************************************)
(* The regular language of a reference expression, by the textbook         *)
(* definitions of union, concatenation and iteration.                      *)
(***************************************************************************)
RECURSIVE InLanguage(_, _)
InLanguage(r, w) ==
    LET n == Len(w)
        Pre(k) == SubSeq(w, 1, k)
        Suf(k) == SubSeq(w, k + 1, n)
    IN
    CASE r.op = "empty" -> w = <<>>
      [] r.op \in {"sym", "esc"} -> w = <<r.c>>
      [] r.op = "group" -> InLanguage(r.e, w)
      [] r.op = "alt"   -> InLanguage(r.l, w) \/ InLanguage(r.r, w)
      [] r.op = "cat"   -> \E k \in 0..n : InLanguage(r.l, Pre(k)) /\ InLanguage(r.r, Suf(k))
      [] r.op = "opt"   -> w = <<>> \/ InLanguage(r.e, w)
      [] r.op = "star"  -> \/ w = <<>>
                           \/ \E k \in 1..n : InLanguage(r.e, Pre(k)) /\ InLanguage(r, Suf(k))
      [] r.op = "plus"  -> \/ InLanguage(r.e, w)
                           \/ \E k \in 1..(n - 1) :
                                  InLanguage(r.e, Pre(k)) /\ InLanguage(r, Suf(k))

\* --------------------------------------------------------- specifications

(***************************************************************************)
(* Spec: a client writes an expression, builds its matcher and calls it    *)
(* on words, one call after another.                                       *)
(***************************************************************************)
NoLast == [op |-> "none"]

\* no operator has been applied and toNFA has not been called
NothingBuilt ==
    /\ fragments = {}
    /\ last = NoLast
    /\ tokens = <<>>
    /\ operandStack = <<>>
    /\ tokensRead = 0

\* no call of addNextState is in progress
NoClosure ==
    /\ frames = <<>>
    /\ visitedNow = <<>>
    /\ nextNow = <<>>
    /\ entries = <<>>
    /\ scanned = 0

Init ==
    /\ pattern = <<>>
    /\ pos = 0
    /\ calls = <<>>
    /\ ref \in References
    /\ exp = Infix(ref)
    /\ pc = "new"
    /\ heap = <<>>
    /\ nfa = NoNFA
    /\ compiles = 0
    /\ word = <<>>
    /\ consumed = 0
    /\ currentStates = <<>>
    /\ answer = NoAnswer
    /\ NothingBuilt
    /\ NoClosure

Next ==
    \/ CreateMatcher
    \/ pc = "ready" /\ \E w \in WordsFor(ref) : Call(w)
    \/ SearchSymbol
    \/ SearchReturn

Spec == Init /\ [][Next]_vars

(***************************************************************************)
(* SpecParse: one call of toParseTree on any string over ParseChars.       *)
(* SpecInterleaved: two calls of toParseTree whose statements interleave.  *)
(***************************************************************************)
MaxPatLen == 4      \* length of the strings given to toParseTree
MaxTwoLen == 2      \* length of the strings given to two interleaved calls

ParseChars == {"a", "|", "*", "+", "?", "(", ")", "\\"}
TwoChars == {"a", "b", "(", "*"}

Idle ==
    /\ pattern = <<>>
    /\ pos = 0
    /\ ref = EmptyR
    /\ exp = <<>>
    /\ pc = "none"
    /\ heap = <<>>
    /\ nfa = NoNFA
    /\ compiles = 0
    /\ word = <<>>
    /\ consumed = 0
    /\ currentStates = <<>>
    /\ answer = NoAnswer
    /\ NothingBuilt
    /\ NoClosure

InitParse ==
    /\ Idle
    /\ \E regex \in Strings(ParseChars, MaxPatLen) : calls = <<Invocation(regex)>>

InitInterleaved ==
    /\ Idle
    /\ \E r1, r2 \in Strings(TwoChars, MaxTwoLen) : calls = <<Invocation(r1), Invocation(r2)>>

NextParse == \E i \in DOMAIN calls : SetPattern(i) \/ SetPos(i) \/ RunExpr(i)

SpecParse == InitParse /\ [][NextParse]_vars

SpecInterleaved == InitInterleaved /\ [][NextParse]_vars

(***************************************************************************)
(* SpecCompose: a client of the seven operators.  It holds the NFA values  *)
(* it has built and gives each of them to an operator at most once, as     *)
(* toNFA and toNFAfromParseTree do; last records the operator applied      *)
(* last, its operands and the heap as it was before the call.              *)
(***************************************************************************)
MaxOperators == 3   \* number of calls of operators that create states

InitCompose ==
    /\ Idle
    /\ calls = <<>>

CanCreate == Len(heap) < 2 * MaxOperators

\* an operator returns f: the operands are used up, the result is held
Applied(op, operands, f) ==
    /\ heap' = f.heap
    /\ fragments' = (fragments \ {operands[i] : i \in DOMAIN operands}) \cup {f.nfa}
    /\ last' = [op |-> op, operands |-> operands, heap |-> heap, result |-> f.nfa]
    /\ UNCHANGED <<parserVars, ref, exp, pc, nfa, compiles, word, consumed,
                   currentStates, answer, tokens, operandStack, tokensRead,
                   closureVars>>

FromEpsilon == CanCreate /\ Applied("fromEpsilon", <<>>, fromEpsilon(heap))

FromSymbol(c) == CanCreate /\ Applied("fromSymbol", <<>>, fromSymbol(heap, c))

Concat(A, B) == A # B /\ Applied("concat", <<A, B>>, concat(heap, A, B))

Union(A, B) == CanCreate /\ A # B /\ Applied("union", <<A, B>>, union(heap, A, B))

Closure(A) == CanCreate /\ Applied("closure", <<A>>, closure(heap, A))

ZeroOrOne(A) == CanCreate /\ Applied("zeroOrOne", <<A>>, zeroOrOne(heap, A))

OneOrMore(A) == CanCreate /\ Applied("oneOrMore", <<A>>, oneOrMore(heap, A))

NextCompose ==
    \/ FromEpsilon
    \/ \E c \in OrdinaryChars : FromSymbol(c)
    \/ \E A, B \in fragments : Concat(A, B)
    \/ \E A, B \in fragments : Union(A, B)
    \/ \E A \in fragments : Closure(A)
    \/ \E A \in fragments : ZeroOrOne(A)
    \/ \E A \in fragments : OneOrMore(A)

SpecCompose == InitCompose /\ [][NextCompose]_vars

(***************************************************************************)
(* SpecPostfix: one call of toNFA on any token string over PostfixTokens,  *)
(* one step for the test of the empty string, one for every round of the   *)
(* loop and one for the return statement.                                  *)
(***************************************************************************)
MaxTokens == 4      \* length of the token strings given to toNFA

PostfixTokens == {"a", "b", "*", "?", "+", "|", "."}

InitPostfix ==
    /\ pattern = <<>>
    /\ pos = 0
    /\ calls = <<>>
    /\ ref = EmptyR
    /\ exp = <<>>
    /\ pc = "toNFA"
    /\ heap = <<>>
    /\ nfa = NoNFA
    /\ compiles = 0
    /\ word = <<>>
    /\ consumed = 0
    /\ currentStates = <<>>
    /\ answer = NoAnswer
    /\ fragments = {}
    /\ last = NoLast
    /\ tokens \in Strings(PostfixTokens, MaxTokens)
    /\ operandStack = <<>>
    /\ tokensRead = 0
    /\ NoClosure

\* if(postfixExp === "") return fromEpsilon(); const stack = []
EnterToNFA ==
    /\ pc = "toNFA"
    /\ IF tokens = <<>>
       THEN /\ heap' = fromEpsilon(heap).heap
            /\ nfa' = fromEpsilon(heap).nfa
            /\ pc' = "returned"
       ELSE /\ pc' = "loop"
            /\ UNCHANGED <<heap, nfa>>
    /\ operandStack' = <<>>
    /\ UNCHANGED <<parserVars, ref, exp, compiles, word, consumed, currentStates,
                   answer, fragments, last, tokens, tokensRead, closureVars>>

\* one round of for(const token of postfixExp)
ReadToken ==
    /\ pc = "loop"
    /\ tokensRead < Len(tokens)
    /\ LET r == toNFAToken(heap, operandStack, tokens[tokensRead + 1]) IN
       /\ heap' = r.heap
       /\ operandStack' = r.stack
    /\ tokensRead' = tokensRead + 1
    /\ UNCHANGED <<parserVars, ref, exp, pc, nfa, compiles, word, consumed,
                   currentStates, answer, fragments, last, tokens, closureVars>>

\* return stack.pop()
ReturnTop ==
    /\ pc = "loop"
    /\ tokensRead = Len(tokens)
    /\ nfa' = Top(operandStack)
    /\ operandStack' = Pop(operandStack)
    /\ pc' = "returned"
    /\ UNCHANGED <<parserVars, ref, exp, heap, compiles, word, consumed,
                   currentStates, answer, fragments, last, tokens, tokensRead,
                   closureVars>>

NextPostfix == EnterToNFA \/ ReadToken \/ ReturnTop

SpecPostfix == InitPostfix /\ [][NextPostfix]_vars

(***************************************************************************)
(* SpecSearch: search(nfa, word) on an automaton toNFAFromInfixExp built,  *)
(* with every call of addNextState and every round of its loops a step.    *)
(* The program runs to completion, so a step that can be taken is taken.   *)
(***************************************************************************)
MaxSearchNodes == 4     \* size of the reference expressions searched
MaxSearchWord == 2      \* length of the words searched

SearchRefs == UNION {ExprR(n, {Sym("a")}) : n \in 1..MaxSearchNodes}

\* createMatcher(exp) has returned: the parser's variables are as toParseTree left them
InitSearch ==
    /\ ref \in SearchRefs
    /\ exp = Infix(ref)
    /\ pattern = IF toNFAFromInfixExp(<<>>, exp).parsed THEN exp ELSE <<>>
    /\ pos = IF toNFAFromInfixExp(<<>>, exp).parsed
             THEN toNFAFromInfixExp(<<>>, exp).parse.pos
             ELSE 0
    /\ calls = <<>>
    /\ pc = "ready"
    /\ heap = toNFAFromInfixExp(<<>>, exp).build.heap
    /\ nfa = toNFAFromInfixExp(<<>>, exp).build.value
    /\ compiles = 1
    /\ word = <<>>
    /\ consumed = 0
    /\ currentStates = <<>>
    /\ answer = NoAnswer
    /\ NothingBuilt
    /\ NoClosure

\* the shared arrays and the calls in progress become those of c
Becomes(c) ==
    /\ frames' = c.frames
    /\ visitedNow' = c.visited
    /\ nextNow' = c.nextStates
    /\ entries' = c.entries

\* search(nfa, w) is called: currentStates = [], addNextState(nfa.start, currentStates, [])
EnterSearch(w) ==
    /\ pc = "ready"
    /\ answer = NoAnswer
    /\ word' = w
    /\ consumed' = 0
    /\ Becomes(enterAddNextState(heap, nfa.start, Running(<<>>, <<>>, <<>>, <<>>)))
    /\ pc' = "initial"
    /\ UNCHANGED <<parserVars, ref, exp, heap, nfa, compiles, currentStates, answer,
                   builderVars, scanned>>

\* a call of addNextState goes on; the number of calls is capped so that a
\* closure that does not end stops instead
AddNextStateStep ==
    /\ pc \in {"initial", "symbol"}
    /\ frames # <<>>
    /\ Len(entries) <= 2 * Len(heap)
    /\ Becomes(stepAddNextState(heap, Running(frames, visitedNow, nextNow, entries)))
    /\ UNCHANGED <<parserVars, matcherVars, builderVars, scanned>>

\* the outermost call of addNextState returns to search
AddNextStateReturn ==
    /\ pc \in {"initial", "symbol"}
    /\ frames = <<>>
    /\ IF pc = "initial"
       THEN /\ currentStates' = nextNow
            /\ pc' = "loop"
       ELSE /\ pc' = "inner"
            /\ UNCHANGED currentStates
    /\ UNCHANGED <<parserVars, ref, exp, heap, nfa, compiles, word, consumed, answer,
                   builderVars, closureVars>>

\* for(const symbol of word): const nextStates = []
NextSymbol ==
    /\ pc = "loop"
    /\ consumed < Len(word)
    /\ nextNow' = <<>>
    /\ scanned' = 0
    /\ pc' = "inner"
    /\ UNCHANGED <<parserVars, ref, exp, heap, nfa, compiles, word, consumed,
                   currentStates, answer, builderVars, frames, visitedNow, entries>>

\* for(const state of currentStates): addNextState(nextState, nextStates, []) if there is one
NextCurrentState ==
    /\ pc = "inner"
    /\ scanned < Len(currentStates)
    /\ scanned' = scanned + 1
    /\ LET state  == currentStates[scanned + 1]
           symbol == word[consumed + 1]
       IN  IF symbol \in DOMAIN heap[state].transition
           THEN /\ Becomes(enterAddNextState(heap, heap[state].transition[symbol],
                                             Running(<<>>, <<>>, nextNow, <<>>)))
                /\ pc' = "symbol"
           ELSE UNCHANGED <<pc, frames, visitedNow, nextNow, entries>>
    /\ UNCHANGED <<parserVars, ref, exp, heap, nfa, compiles, word, consumed,
                   currentStates, answer, builderVars>>

\* currentStates = nextStates
AssignCurrentStates ==
    /\ pc = "inner"
    /\ scanned = Len(currentStates)
    /\ currentStates' = nextNow
    /\ consumed' = consumed + 1
    /\ pc' = "loop"
    /\ UNCHANGED <<parserVars, ref, exp, heap, nfa, compiles, word, answer,
                   builderVars, closureVars>>

\* return typeof currentStates.find(s => s.isEnd) !== "undefined"
ReturnFound ==
    /\ pc = "loop"
    /\ consumed = Len(word)
    /\ answer' = [value |-> searchReturn(heap, currentStates)]
    /\ pc' = "returned"
    /\ UNCHANGED <<parserVars, ref, exp, heap, nfa, compiles, word, consumed,
                   currentStates, builderVars, closureVars>>

NextSearch ==
    \/ \E w \in Strings(WordChars(ref), MaxSearchWord) : EnterSearch(w)
    \/ AddNextStateStep
    \/ AddNextStateReturn
    \/ NextSymbol
    \/ NextCurrentState
    \/ AssignCurrentStates
    \/ ReturnFound

SpecSearch == InitSearch /\ [][NextSearch]_vars /\ WF_vars(NextSearch)

(***************************************************************************)
(* SpecCompile: createMatcher on any string over ParseChars, well formed   *)
(* or not.                                                                 *)
(***************************************************************************)
InitCompile ==
    /\ pattern = <<>>
    /\ pos = 0
    /\ calls = <<>>
    /\ ref = EmptyR
    /\ exp \in Strings(ParseChars, MaxPatLen)
    /\ pc = "new"
    /\ heap = <<>>
    /\ nfa = NoNFA
    /\ compiles = 0
    /\ word = <<>>
    /\ consumed = 0
    /\ currentStates = <<>>
    /\ answer = NoAnswer
    /\ NothingBuilt
    /\ NoClosure

NextCompile == CreateMatcher

SpecCompile == InitCompile /\ [][NextCompile]_vars

(***************************************************************************)
(* SpecSequential: calls of toParseTree one after another, any number of   *)
(* them, each starting with the module variables as the call before left   *)
(* them.                                                                   *)
(***************************************************************************)
InitSequential ==
    /\ Idle
    /\ calls = <<>>

NextSequential ==
    \/ \E regex \in Strings(TwoChars, MaxTwoLen) : StartCall(regex)
    \/ \E i \in DOMAIN calls : SetPattern(i) \/ SetPos(i) \/ RunExpr(i)

SpecSequential == InitSequential /\ [][NextSequential]_vars

\* ------------------------------------------------------------------ claims

Answered == pc = "ready" /\ answer # NoAnswer

(***************************************************************************)
(* C1.  For every well-formed expression (the empty one included) and      *)
(* every word, createMatcher(exp) does not throw and the matcher returns   *)
(* true exactly when the word is in the regular language of the            *)
(* expression.                                                             *)
(***************************************************************************)
C1_MatcherDecidesLanguage ==
    /\ pc # "thrown"
    /\ Answered => answer.value = InLanguage(ref, word)

C1_Witness ==
    /\ Answered
    /\ answer.value = TRUE
    /\ Len(word) >= 2
    /\ ref.op = "cat"
    /\ ref.l.op = "star"

(***************************************************************************)
(* C2.  After every input symbol the list of current states of search      *)
(* holds at most N entries, N the number of states of the NFA.             *)
(***************************************************************************)
C2_AtMostNCurrentStates ==
    pc = "search" => Len(currentStates) <= Len(heap)

\* ------------------------------------------------- parse trees, as read back

\* the labels of the leaves of a tree, from left to right
RECURSIVE Yield(_)
YieldOfAll(trees) ==
    LET RECURSIVE Cat(_)
        Cat(i) == IF i > Len(trees) THEN <<>> ELSE Yield(trees[i]) \o Cat(i + 1)
    IN  Cat(1)
Yield(t) == IF "children" \in DOMAIN t THEN YieldOfAll(t.children) ELSE <<t.label>>

IsLeaf(t, labels) == DOMAIN t = {"label"} /\ t.label \in labels

\* every inner node is a rule of the grammar with the children of one alternative
RECURSIVE IsRule(_, _)
IsRule(t, rule) ==
    /\ "children" \in DOMAIN t
    /\ t.label = rule
    /\ LET c == t.children
           n == Len(t.children)
       IN  CASE rule = "Expr" ->
                    \/ n = 1 /\ IsRule(c[1], "Term")
                    \/ n = 3 /\ IsRule(c[1], "Term") /\ IsLeaf(c[2], {"|"}) /\ IsRule(c[3], "Expr")
             [] rule = "Term" ->
                    \/ n = 1 /\ IsRule(c[1], "Factor")
                    \/ n = 2 /\ IsRule(c[1], "Factor") /\ IsRule(c[2], "Term")
             [] rule = "Factor" ->
                    \/ n = 1 /\ IsRule(c[1], "Atom")
                    \/ n = 2 /\ IsRule(c[1], "Atom") /\ IsLeaf(c[2], {"*", "+", "?"})
             [] rule = "Atom" ->
                    \/ n = 1 /\ IsRule(c[1], "Char")
                    \/ n = 3 /\ IsLeaf(c[1], {"("}) /\ IsRule(c[2], "Expr") /\ IsLeaf(c[3], {")"})
             [] rule = "Char" ->
                    \/ n = 1 /\ DOMAIN c[1] = {"label"} /\ ~isMetaChar(c[1].label)
                    \/ n = 2 /\ IsLeaf(c[1], {"\\"}) /\ DOMAIN c[2] = {"label"}

\* the call of toParseTree of SpecParse
TheCall == calls[1]
Parsed == TheCall.at = "done"

(***************************************************************************)
(* C3.  toParseTree throws whenever a rule needs a character and the       *)
(* input is exhausted: the scan position never passes the end of the       *)
(* pattern and no returned tree has a leaf labelled undefined.             *)
(***************************************************************************)
C3_NoReadPastEnd ==
    Parsed =>
        /\ pos <= Len(pattern)
        /\ ~TheCall.outcome.thrown =>
               \A i \in 1..Len(Yield(TheCall.outcome.value)) :
                   Yield(TheCall.outcome.value)[i] # UNDEF

UnclosedGroups ==
    {<<"(">> \o Infix(r) : r \in UNION {ExprR(n, {Sym("a")}) : n \in 1..3}}

ErrorKind(error) == error[1]

MismatchKind == ErrorKind(match(<<"a">>, 0, ")").error)

(***************************************************************************)
(* C4.  A group that is still open at the end of the input makes the       *)
(* parse throw an error of another kind than the unexpected-symbol error   *)
(* match raises when a character that is present is not the expected one.  *)
(***************************************************************************)
C4_UnclosedGroupIsEndOfInput ==
    (Parsed /\ TheCall.regex \in UnclosedGroups) =>
        /\ TheCall.outcome.thrown
        /\ ErrorKind(TheCall.outcome.error) # MismatchKind

RECURSIVE BackslashesBefore(_, _)
BackslashesBefore(p, i) ==
    IF i > 1 /\ p[i - 1] = "\\" THEN 1 + BackslashesBefore(p, i - 1) ELSE 0

Bare(p, i, chars) ==
    /\ i \in 1..Len(p)
    /\ p[i] \in chars
    /\ BackslashesBefore(p, i) % 2 = 0

QuantifierWhereAtomExpected(p) ==
    \E i \in 1..Len(p) :
        /\ Bare(p, i, {"*", "+", "?"})
        /\ i = 1 \/ Bare(p, i - 1, {"(", "|", "*", "+", "?"})

(***************************************************************************)
(* C5.  toParseTree throws for every pattern in which a quantifier stands  *)
(* where an atom is expected: first in the pattern, or right after an      *)
(* unescaped "(", "|" or quantifier.                                       *)
(***************************************************************************)
C5_QuantifierWithoutAtomThrows ==
    (Parsed /\ QuantifierWhereAtomExpected(TheCall.regex)) => TheCall.outcome.thrown

(***************************************************************************)
(* C7.  A tree returned by toParseTree(P) has exactly the characters of P  *)
(* as its leaves, from left to right, and every inner node is a rule of    *)
(* the grammar with the children of one of its alternatives.               *)
(***************************************************************************)
C7_TreeSpellsPattern ==
    (Parsed /\ ~TheCall.outcome.thrown) =>
        /\ Yield(TheCall.outcome.value) = TheCall.regex
        /\ IsRule(TheCall.outcome.value, "Expr")

Result(outcome) ==
    IF outcome.thrown THEN <<"error", outcome.error>> ELSE <<"tree", outcome.value>>

(***************************************************************************)
(* C8.  Two calls of toParseTree whose statements interleave each end with *)
(* the tree or the error the call has when it runs alone.                  *)
(***************************************************************************)
C8_InterleavedCallsDoNotInterfere ==
    \A i \in DOMAIN calls :
        calls[i].at = "done" =>
            Result(calls[i].outcome) = Result(toParseTree(calls[i].regex))

\* the sym and esc leaves of a reference expression, from left to right
RECURSIVE LeavesOf(_)
LeavesOf(r) ==
    CASE r.op = "empty" -> <<>>
      [] r.op \in {"sym", "esc"} -> <<r>>
      [] r.op \in {"group", "star", "plus", "opt"} -> LeavesOf(r.e)
      [] r.op \in {"cat", "alt"} -> LeavesOf(r.l) \o LeavesOf(r.r)

HasEscape(r) == \E i \in 1..Len(LeavesOf(r)) : LeavesOf(r)[i].op = "esc"

\* the Char nodes of a tree, from left to right
RECURSIVE CharNodes(_)
CharNodesOfAll(trees) ==
    LET RECURSIVE Cat(_)
        Cat(i) == IF i > Len(trees) THEN <<>> ELSE CharNodes(trees[i]) \o Cat(i + 1)
    IN  Cat(1)
CharNodes(t) ==
    IF "children" \in DOMAIN t
    THEN IF t.label = "Char" THEN <<t>> ELSE CharNodesOfAll(t.children)
    ELSE <<>>

CharNodeFor(leaf) ==
    IF leaf.op = "esc"
    THEN Node("Char", <<Leaf("\\"), Leaf(leaf.c)>>)
    ELSE Node("Char", <<Leaf(leaf.c)>>)

Compiled == pc = "ready" /\ answer = NoAnswer /\ word = <<>>

(***************************************************************************)
(* C6.  A backslash and a character c are parsed into a Char node with     *)
(* the backslash and c as its leaves, whatever c is, and the automaton     *)
(* takes exactly the character c there: the matcher decides the language   *)
(* in which that Char is the one-character word c.  The matcher of a\*     *)
(* accepts the word a* and no other word.                                  *)
(***************************************************************************)
C6_EscapedCharIsLiteral ==
    (pc # "new" /\ HasEscape(ref)) =>
        /\ pc # "thrown"
        /\ Compiled =>
               /\ ~toParseTree(exp).thrown
               /\ CharNodes(toParseTree(exp).value)
                      = [i \in 1..Len(LeavesOf(ref)) |-> CharNodeFor(LeavesOf(ref)[i])]
        /\ Answered => answer.value = InLanguage(ref, word)
        /\ (Answered /\ exp = <<"a", "\\", "*">>) =>
               (answer.value <=> word = <<"a", "*">>)

C6_Witness ==
    /\ Answered
    /\ exp = <<"a", "\\", "*">>
    /\ word = <<"a", "*">>
    /\ answer.value = TRUE

(***************************************************************************)
(* C9.  Matching leaves the compiled automaton as createMatcher built it:  *)
(* once the matcher exists no step changes an accept flag or a transition  *)
(* of any state, the expression is not compiled again, and every call      *)
(* that returns gives what recognize gives on that unchanged automaton,    *)
(* which is what a first call on the same word gives.                      *)
(***************************************************************************)
C9_MatchingIsReadOnly ==
    [][pc # "new" =>
          /\ heap' = heap
          /\ nfa' = nfa
          /\ compiles' = compiles
          /\ (pc' = "ready" /\ answer' # NoAnswer) =>
                 answer'.value = recognize(heap, nfa, word)]_vars

\* a call has returned false on a word whose first symbol alone is accepted,
\* and the automaton is the one a fresh compilation of exp builds
C9_Witness ==
    /\ Answered
    /\ answer.value = FALSE
    /\ Len(word) = 2
    /\ ref.op = "star"
    /\ recognize(heap, nfa, <<word[1]>>)
    /\ heap = toNFAFromInfixExp(<<>>, exp).build.heap
    /\ compiles = 1

PostfixOperators == {"*", "?", "+", "|", "."}

FromPostfix == toNFA(<<>>, Postfix(ref))

(***************************************************************************)
(* C10.  For a well-formed expression whose literal characters are not     *)
(* tokens that toNFA reads as operators, the matcher built from the infix  *)
(* text answers as recognize does on the automaton toNFA builds from the   *)
(* postfix text.                                                           *)
(***************************************************************************)
C10_CompilersAgree ==
    (Answered /\ CharsOf(ref) \cap PostfixOperators = {}) =>
        answer.value = recognize(FromPostfix.heap, FromPostfix.nfa, word)

C10_Witness ==
    /\ Answered
    /\ answer.value = TRUE
    /\ ref.op = "cat"
    /\ word = <<"a", "b">>

\* ------------------------------------------------- fragments, as composed

Words == Strings(OrdinaryChars, MaxWordLen)

\* the states one transition away from s, and those any number of transitions away
Targets(h, s) ==
    {h[s].transition[c] : c \in DOMAIN h[s].transition}
    \cup {h[s].epsilonTransitions[i] : i \in DOMAIN h[s].epsilonTransitions}

Reachable(h, s) ==
    LET RECURSIVE Grow(_)
        Grow(S) == LET T == S \cup UNION {Targets(h, x) : x \in S}
                   IN  IF T = S THEN S ELSE Grow(T)
    IN  Grow({s})

AcceptStates(h, f) == {s \in Reachable(h, f.start) : h[s].isEnd}

(***************************************************************************)
(* C11, as claimed.  After any sequence of the seven operators in which    *)
(* every NFA value is an operand at most once, every value not yet used,   *)
(* the result of the last operator included, has exactly one state with    *)
(* isEnd set among the states reachable from its start, namely its end,    *)
(* and the end of every operand of the last operator has isEnd cleared.    *)
(***************************************************************************)
C11_EveryOperandEndCleared ==
    /\ \A f \in fragments : AcceptStates(heap, f) = {f.end}
    /\ last.op # "none" =>
           /\ last.result \in fragments
           /\ \A i \in DOMAIN last.operands : ~heap[last.operands[i].end].isEnd

(***************************************************************************)
(* C11, as amended.  The same, with isEnd cleared at the end of every      *)
(* operand of the last operator except the one that is the end of the      *)
(* result: concat returns the end of its second operand as the end of the  *)
(* result, and that state keeps isEnd set.                                 *)
(***************************************************************************)
C11_OneAcceptStatePerFragment ==
    /\ \A f \in fragments : AcceptStates(heap, f) = {f.end}
    /\ last.op # "none" =>
           /\ last.result \in fragments
           /\ \A i \in DOMAIN last.operands :
                  last.operands[i].end # last.result.end =>
                      ~heap[last.operands[i].end].isEnd

C11_Witness ==
    /\ last.op = "concat"
    /\ Len(heap) = 6
    /\ Cardinality(fragments) = 1
    /\ heap[last.operands[2].end].isEnd
    /\ ~heap[last.operands[1].end].isEnd

\* acceptance by the operands of the last operator, on the heap it found
Before(i, w) == recognize(last.heap, last.operands[i], w)

(***************************************************************************)
(* C12.  concat(A, B) of two NFA values accepts w exactly when w = u + v   *)
(* with u accepted by A and v accepted by B as they were before the call.  *)
(***************************************************************************)
C12_ConcatAcceptsSplits ==
    last.op = "concat" =>
        \A w \in Words :
            recognize(heap, last.result, w)
                <=> \E k \in 0..Len(w) :
                        /\ Before(1, SubSeq(w, 1, k))
                        /\ Before(2, SubSeq(w, k + 1, Len(w)))

C12_Witness ==
    /\ last.op = "concat"
    /\ recognize(heap, last.result, <<"a", "b", "b">>)
    /\ Before(1, <<"a">>)
    /\ ~Before(1, <<>>)
    /\ Before(2, <<"b", "b">>)

\* w is a sequence of one or more words accepted by the operand of the last operator
RECURSIVE Repeats(_)
Repeats(w) ==
    \/ Before(1, w)
    \/ \E k \in 1..(Len(w) - 1) :
           Before(1, SubSeq(w, 1, k)) /\ Repeats(SubSeq(w, k + 1, Len(w)))

(***************************************************************************)
(* C13.  closure(A) accepts w exactly when w is empty or a sequence of one *)
(* or more words accepted by A as it was before the call, also when A      *)
(* accepts the empty word or is the result of closure or zeroOrOne.        *)
(***************************************************************************)
C13_ClosureAcceptsRepeats ==
    last.op = "closure" =>
        \A w \in Words : recognize(heap, last.result, w) <=> (w = <<>> \/ Repeats(w))

C13_Witness ==
    /\ last.op = "closure"
    /\ Before(1, <<>>)
    /\ Before(1, <<"a", "a">>)
    /\ ~Before(1, <<"b">>)
    /\ recognize(heap, last.result, <<"a", "a", "a">>)

(***************************************************************************)
(* C14.  In every automaton the operators build, a state has either one    *)
(* symbol transition and no epsilon transition, or no symbol transition    *)
(* and at most two epsilon transitions, and the end state of an NFA value  *)
(* not yet given to an operator has no transition at all.                  *)
(***************************************************************************)
C14_SymbolOrEpsilonStates ==
    /\ \A s \in DOMAIN heap :
           LET symbols == Cardinality(DOMAIN heap[s].transition)
               epsilons == Len(heap[s].epsilonTransitions)
           IN  \/ symbols = 1 /\ epsilons = 0
               \/ symbols = 0 /\ epsilons <= 2
    /\ \A f \in fragments :
           /\ DOMAIN heap[f.end].transition = {}
           /\ heap[f.end].epsilonTransitions = <<>>

C14_Witness ==
    /\ last.op = "oneOrMore"
    /\ Len(heap[last.operands[1].end].epsilonTransitions) = 2
    /\ \E s \in DOMAIN heap : Cardinality(DOMAIN heap[s].transition) = 1
    /\ Len(heap) = 6

\* ------------------------------------------------------- toNFA, as called

\* f is what fromEpsilon() returns: a start state with one epsilon transition to an accepting end
IsEpsilonFragment(h, f) ==
    /\ f # NoNFA
    /\ ~h[f.start].isEnd
    /\ DOMAIN h[f.start].transition = {}
    /\ h[f.start].epsilonTransitions = <<f.end>>
    /\ h[f.end].isEnd
    /\ DOMAIN h[f.end].transition = {}
    /\ h[f.end].epsilonTransitions = <<>>

(***************************************************************************)
(* C15.  toNFA returns an NFA for every token string, never undefined:     *)
(* the epsilon NFA for the empty string, and otherwise the one NFA the     *)
(* stack holds when the last token has been processed.                     *)
(***************************************************************************)
C15_ResultIsTheOnlyStackEntry ==
    /\ (pc = "loop" /\ tokensRead = Len(tokens)) => Len(operandStack) = 1
    /\ pc = "returned" =>
           /\ nfa # NoNFA
           /\ tokens = <<>> => IsEpsilonFragment(heap, nfa)
           /\ tokens # <<>> => operandStack = <<>>

\* the number of operands the branch of a token pops
Arity(token) ==
    IF token \in {"*", "?", "+"} THEN 1
    ELSE IF token \in {"|", "."} THEN 2
    ELSE 0

(***************************************************************************)
(* C16.  When toNFA reads an operator while the stack holds fewer operands *)
(* than the operator needs, the round creates no state, raises no error,   *)
(* leaves the stack as it was and the loop goes on with the next token.    *)
(***************************************************************************)
C16_UnderflowSkipsOperator ==
    [][(/\ pc = "loop"
        /\ tokensRead < Len(tokens)
        /\ Len(operandStack) < Arity(tokens[tokensRead + 1]))
       => (/\ operandStack' = operandStack
           /\ heap' = heap
           /\ pc' = "loop"
           /\ tokensRead' = tokensRead + 1)]_vars

\* ------------------------------------------------------ search, call by call

\* since the outermost call, addNextState was called on no state twice
NoStateEnteredTwice ==
    \A i, j \in DOMAIN entries : i # j => entries[i] # entries[j]

(***************************************************************************)
(* C17.  search(nfa, word) returns for every automaton the compiler builds *)
(* and every word, with the answer recognize gives, and between an         *)
(* outermost call of addNextState and its return no state is entered       *)
(* twice, epsilon cycles or not.                                           *)
(***************************************************************************)
C17_SearchTerminates ==
    /\ []NoStateEnteredTwice
    /\ [](pc = "returned" => answer.value = recognize(heap, nfa, word))
    /\ <>(pc = "returned")

C17_Witness ==
    /\ pc = "returned"
    /\ exp = <<"(", "a", "*", ")", "*">>
    /\ word = <<"a", "a">>
    /\ answer.value = TRUE
    /\ \E s \in DOMAIN heap :
           /\ Contains(visitedNow, s)
           /\ \E t \in Targets(heap, s) : s \in Reachable(heap, t)

\* ------------------------------------------------- toNFAFromInfixExp, as called

\* every state created is part of the automaton, which has its end as its one accept state
IsComplete(h, f) ==
    /\ f # NoNFA
    /\ Reachable(h, f.start) = DOMAIN h
    /\ AcceptStates(h, f) = {f.end}

(***************************************************************************)
(* C18.  toNFAFromInfixExp(P) returns a complete automaton, or throws with *)
(* no FA_State created: what it throws is an error of toParseTree, raised  *)
(* before toNFAfromParseTree is entered, and toNFAfromParseTree does not   *)
(* throw on a tree toParseTree returned.                                   *)
(***************************************************************************)
C18_CompleteOrNothing ==
    /\ pc = "ready" => IsComplete(heap, nfa)
    /\ pc = "thrown" =>
           /\ heap = <<>>
           /\ toParseTree(exp).thrown
    /\ (pc # "new" /\ exp # <<>> /\ ~toParseTree(exp).thrown) => pc = "ready"

C18_Witness ==
    /\ pc = "thrown"
    /\ Len(exp) >= 3
    /\ exp[1] = "a"
    /\ ~toParseTree(<<exp[1], exp[2]>>).thrown

\* --------------------------------------------------- operators in the tree

\* the number of nodes of t with this label and this number of children
RECURSIVE CountNodes(_, _, _)
CountNodesOfAll(trees, label, n) ==
    LET RECURSIVE Sum(_)
        Sum(i) == IF i > Len(trees) THEN 0
                  ELSE CountNodes(trees[i], label, n) + Sum(i + 1)
    IN  Sum(1)
CountNodes(t, label, n) ==
    IF "children" \in DOMAIN t
    THEN (IF t.label = label /\ Len(t.children) = n THEN 1 ELSE 0)
         + CountNodesOfAll(t.children, label, n)
    ELSE 0

\* the number of places of p with an unescaped ch
CountBare(p, ch) == Cardinality({i \in 1..Len(p) : Bare(p, i, {ch})})

(***************************************************************************)
(* C19.  In a tree toParseTree returns, the leaf of a Char node without a  *)
(* backslash is none of | ( ) * + ?, every unescaped | of the pattern is   *)
(* the middle child of an Expr node and every unescaped ) closes an Atom   *)
(* node that an unescaped ( opened.                                        *)
(***************************************************************************)
C19_BareOperatorIsNoLiteral ==
    (Parsed /\ ~TheCall.outcome.thrown) =>
        LET tree == TheCall.outcome.value IN
        /\ \A i \in DOMAIN CharNodes(tree) :
               Len(CharNodes(tree)[i].children) = 1 =>
                   CharNodes(tree)[i].children[1].label
                       \notin {"|", "(", ")", "*", "+", "?"}
        /\ CountNodes(tree, "Expr", 3) = CountBare(TheCall.regex, "|")
        /\ CountNodes(tree, "Atom", 3) = CountBare(TheCall.regex, ")")
        /\ CountNodes(tree, "Atom", 3) = CountBare(TheCall.regex, "(")

(***************************************************************************)
(* C20.  A call of toParseTree made after any sequence of earlier calls,   *)
(* whatever pattern and scan position they left behind, ends with the tree *)
(* or the error, and the scan position, of a call on the same pattern made *)
(* first.                                                                  *)
(***************************************************************************)
C20_OutcomeDependsOnPatternOnly ==
    \A i \in DOMAIN calls :
        calls[i].at = "done" => calls[i].outcome = toParseTree(calls[i].regex)

C20_Witness ==
    /\ Len(calls) = 2
    /\ calls[1].outcome.thrown
    /\ calls[1].outcome.pos > 1
    /\ calls[2].at = "done"
    /\ ~calls[2].outcome.thrown
    /\ Len(calls[2].regex) = 2
    /\ calls[2].regex # calls[1].regex

====
